---- MODULE Spec2Model ----
(***************************************************************************)
(* Model of script/setup.js: the recursive tree merger (deepMerge), the    *)
(* literal serializer (objectToJSLiteral), the command-line parser         *)
(* (parseArgs) and the orchestrator (main).                                *)
(*                                                                         *)
(* Text is a sequence of one-character strings, so that split, trimStart,  *)
(* repeat and join do what the JavaScript does.  A configuration tree is a *)
(* tagged record [t, v]; a mapping keeps its entries in insertion order as *)
(* a sequence of <<key, value>> pairs.                                     *)
(***************************************************************************)
EXTENDS Integers, Sequences, FiniteSets, TLC

VARIABLES
  \* ---- main(): one run of the script
  args,          \* process.argv.slice(2)
  pc,            \* the step main() is about to execute
  exitCode,      \* process exit code, Running while the run goes on
  exitWhy,       \* which exit ended the run
  exitAt,        \* the step the run ended in
  targetPath,    \* parseArgs' targetPath
  groupName,     \* parseArgs' groupName
  easSrc,        \* <script>/../.eas exists
  easJsonSrc,    \* <script>/../eas.json exists
  targetEas,     \* <target>/.eas
  targetEasJson, \* <target>/eas.json
  installed,     \* the package install ran to completion
  appJson,       \* <target>/app.json
  appConfigTs,   \* <target>/app.config.ts
  fsLog,         \* the mutating operations attempted so far, in order
  \* ---- deepMerge(left, right)
  left, right, merged, mpc,
  \* ---- objectToJSLiteral(obj, indent)
  obj, indent, text, lpc

mainVars == <<args, pc, exitCode, exitWhy, exitAt, targetPath, groupName, easSrc,
              easJsonSrc, targetEas, targetEasJson, installed, appJson,
              appConfigTs, fsLog>>
mergeVars == <<left, right, merged, mpc>>
litVars == <<obj, indent, text, lpc>>
vars == <<mainVars, mergeVars, litVars>>

(***************************************************************************)
(* Bounds of the model.                                                    *)
(***************************************************************************)
MaxArgs == 3
MaxArr == 2
MaxIndentSteps == 2

(***************************************************************************)
(* Text                                                                    *)
(***************************************************************************)
NL == "\n"
Whitespace == {" ", "\t", NL}

\* ' '.repeat(n)
repeat(n) == [i \in 1..n |-> " "]

\* s.match(/^\s*/)[0].length
leadingWhitespace(s) ==
  CHOOSE k \in 0..Len(s) :
    /\ \A i \in 1..k : s[i] \in Whitespace
    /\ (k = Len(s) \/ s[k + 1] \notin Whitespace)

\* String.prototype.trimStart
trimStart(s) == SubSeq(s, leadingWhitespace(s) + 1, Len(s))

\* s.split('\n')
split(s) ==
  LET breaks == {i \in 1..Len(s) : s[i] = NL}
      n == Cardinality(breaks)
      break(k) == CHOOSE i \in breaks : Cardinality({j \in breaks : j < i}) = k - 1
      first(k) == IF k = 1 THEN 1 ELSE break(k - 1) + 1
      last(k) == IF k = n + 1 THEN Len(s) ELSE break(k) - 1
  IN [k \in 1..(n + 1) |-> SubSeq(s, first(k), last(k))]

\* lines.join(sep)
RECURSIVE join(_, _)
join(lines, sep) ==
  IF lines = <<>> THEN <<>>
  ELSE IF Len(lines) = 1 THEN lines[1]
  ELSE lines[1] \o sep \o join(Tail(lines), sep)

\* lines.slice(1, -1)
sliceMiddle(lines) == [i \in 1..(Len(lines) - 2) |-> lines[i + 1]]

\* JSON.stringify's escaping of one character of a string
escapeChar(c) ==
  IF c = "\"" THEN <<"\\", "\"">>
  ELSE IF c = "\\" THEN <<"\\", "\\">>
  ELSE IF c = NL THEN <<"\\", "n">>
  ELSE IF c = "\t" THEN <<"\\", "t">>
  ELSE <<c>>

RECURSIVE escapeAll(_)
escapeAll(s) == IF s = <<>> THEN <<>> ELSE escapeChar(Head(s)) \o escapeAll(Tail(s))

\* JSON.stringify(s) for a string s
stringifyString(s) == <<"\"">> \o escapeAll(s) \o <<"\"">>

Digits == <<"0", "1", "2", "3", "4", "5", "6", "7", "8", "9">>

\* JSON.stringify(n) for a natural number n
RECURSIVE stringifyNumber(_)
stringifyNumber(n) ==
  IF n < 10 THEN <<Digits[n + 1]>>
  ELSE stringifyNumber(n \div 10) \o <<Digits[(n % 10) + 1]>>

\* JSON.stringify(b) for a boolean b
stringifyBoolean(b) ==
  IF b THEN <<"t", "r", "u", "e">> ELSE <<"f", "a", "l", "s", "e">>

(***************************************************************************)
(* Configuration trees                                                     *)
(***************************************************************************)
Null == [t |-> "null", v |-> 0]
Undefined == [t |-> "undefined", v |-> 0]
Str(s) == [t |-> "string", v |-> s]
Num(n) == [t |-> "number", v |-> n]
Bool(b) == [t |-> "boolean", v |-> b]
Arr(items) == [t |-> "array", v |-> items]
Obj(entries) == [t |-> "object", v |-> entries]

\* JavaScript's typeof
typeof(x) ==
  IF x.t \in {"null", "array", "object"} THEN "object" ELSE x.t

\* Array.isArray
isArray(x) == x.t = "array"

\* x === null || x === undefined
isNullish(x) == x.t \in {"null", "undefined"}

\* key in o (own keys of a parsed tree)
hasKey(entries, key) == \E i \in 1..Len(entries) : entries[i][1] = key

\* o[key]
getKey(entries, key) ==
  entries[CHOOSE i \in 1..Len(entries) : entries[i][1] = key][2]

\* o[key] = value: an existing key keeps its place, a new key goes last
setKey(entries, key, value) ==
  IF hasKey(entries, key)
  THEN [i \in 1..Len(entries) |->
          IF entries[i][1] = key THEN <<key, value>> ELSE entries[i]]
  ELSE Append(entries, <<key, value>>)

(***************************************************************************)
(* deepMerge                                                               *)
(***************************************************************************)
RECURSIVE deepMerge(_, _)
RECURSIVE mergeKeys(_, _, _)

\* the variant of shouldRecurse that forgets the two null tests
shouldRecurseNoNullTest(result, key, rv) ==
  /\ hasKey(result, key)
  /\ typeof(getKey(result, key)) = "object"
  /\ typeof(rv) = "object"
  /\ ~isArray(getKey(result, key))
  /\ ~isArray(rv)

\* the test that sends a key of right into the recursion
shouldRecurse(result, key, rv) ==
  /\ hasKey(result, key)
  /\ typeof(getKey(result, key)) = "object"
  /\ typeof(rv) = "object"
  /\ ~isArray(getKey(result, key))
  /\ ~isArray(rv)
  /\ getKey(result, key).t # "null"
  /\ rv.t # "null"

\* the for-in loop over right's own keys, from its i-th entry on
mergeKeys(result, rightEntries, i) ==
  IF i > Len(rightEntries) THEN result
  ELSE LET key == rightEntries[i][1]
           rv == rightEntries[i][2]
       IN IF shouldRecurse(result, key, rv)
          THEN mergeKeys(setKey(result, key, deepMerge(getKey(result, key), rv)),
                         rightEntries, i + 1)
          ELSE mergeKeys(setKey(result, key, rv), rightEntries, i + 1)

\* the variant of deepMerge that tests left for null before right
deepMergeLeftFirst(l, r) ==
  IF isNullish(l) THEN r
  ELSE IF isNullish(r) THEN l
  ELSE IF typeof(r) # "object" THEN r
  ELSE IF isArray(r) THEN (IF isArray(l) THEN Arr(l.v \o r.v) ELSE r)
  ELSE IF typeof(l) # "object" \/ isArray(l) THEN r
  ELSE Obj(mergeKeys(l.v, r.v, 1))

\* (a tree parsed from JSON holds no Date or RegExp, so typeof decides rule 3)
deepMerge(l, r) ==
  IF isNullish(r) THEN l
  ELSE IF isNullish(l) THEN r
  ELSE IF typeof(r) # "object" THEN r
  ELSE IF isArray(r) THEN (IF isArray(l) THEN Arr(l.v \o r.v) ELSE r)
  ELSE IF typeof(l) # "object" \/ isArray(l) THEN r
  ELSE Obj(mergeKeys(l.v, r.v, 1))

(***************************************************************************)
(* The trees deepMerge is applied to                                       *)
(***************************************************************************)
KeyA == <<"a">>
KeyB == <<"b">>
MergeKeySet == {KeyA, KeyB}

\* all sequences over S of length at most n
RECURSIVE SeqsUpTo(_, _)
SeqsUpTo(S, n) ==
  IF n = 0 THEN {<<>>}
  ELSE LET shorter == SeqsUpTo(S, n - 1)
       IN shorter \cup {Append(q, x) : q \in {p \in shorter : Len(p) = n - 1}, x \in S}

\* all mappings with at most two entries, keys taken from K and values from S
ObjectsOver(K, S) ==
  {Obj(<<>>)}
    \cup {Obj(<< <<k, x>> >>) : k \in K, x \in S}
    \cup {Obj(<< <<p[1], x>>, <<p[2], y>> >>) :
            p \in {q \in K \X K : q[1] # q[2]}, x \in S, y \in S}

MergeLeaves == {Null, Undefined, Str(<<"x">>), Num(1)}
MergeArrays == {Arr(q) : q \in SeqsUpTo({Num(1), Num(2)}, MaxArr)}
MergeInner ==
  {Null, Num(1), Arr(<<Num(1)>>), Arr(<<Num(2)>>), Obj(<<>>),
   Obj(<< <<KeyA, Num(1)>> >>), Obj(<< <<KeyB, Null>> >>),
   Obj(<< <<KeyA, Obj(<< <<KeyB, Num(2)>> >>)>> >>),
   Obj(<< <<KeyA, Arr(<<Num(1)>>)>> >>)}
MergeTrees == MergeLeaves \cup MergeArrays \cup ObjectsOver(MergeKeySet, MergeInner)

MergeInit ==
  /\ left \in MergeTrees
  /\ right \in MergeTrees
  /\ merged = Undefined
  /\ mpc = "call"

\* one call deepMerge(left, right)
Merge ==
  /\ mpc = "call"
  /\ merged' = deepMerge(left, right)
  /\ mpc' = "returned"
  /\ UNCHANGED <<left, right>>

(***************************************************************************)
(* objectToJSLiteral                                                       *)
(***************************************************************************)
Lower ==
  {"a", "b", "c", "d", "e", "f", "g", "h", "i", "j", "k", "l", "m",
   "n", "o", "p", "q", "r", "s", "t", "u", "v", "w", "x", "y", "z"}
Upper ==
  {"A", "B", "C", "D", "E", "F", "G", "H", "I", "J", "K", "L", "M",
   "N", "O", "P", "Q", "R", "S", "T", "U", "V", "W", "X", "Y", "Z"}
DigitChars == {Digits[i] : i \in 1..Len(Digits)}
IdentStart == Lower \cup Upper \cup {"_", "$"}
IdentPart == IdentStart \cup DigitChars

\* !/^[a-zA-Z_$][a-zA-Z0-9_$]*$/.test(key)
needsQuotes(key) ==
  ~(/\ key # <<>>
    /\ key[1] \in IdentStart
    /\ \A i \in 2..Len(key) : key[i] \in IdentPart)

keyStr(key) == IF needsQuotes(key) THEN stringifyString(key) ELSE key

\* the variant of stringLiteral that quotes a '$' string like any other
stringLiteralAlwaysQuoted(s) == stringifyString(s)

\* a string leaf: a leading '$' makes it a variable reference
stringLiteral(s) ==
  IF s # <<>> /\ s[1] = "$" THEN Tail(s) ELSE stringifyString(s)

RECURSIVE objectToJSLiteral(_, _)

\* one element of an array, placed at itemIndent
formatItem(item, itemIndent) ==
  LET itemStr == objectToJSLiteral(item, itemIndent)
      lines == split(itemStr)
  IN IF Len(lines) = 1
     THEN repeat(itemIndent) \o trimStart(lines[1])
     ELSE IF leadingWhitespace(lines[1]) = itemIndent
          THEN itemStr
          ELSE join(<<repeat(itemIndent) \o trimStart(lines[1])>> \o Tail(lines),
                    <<NL>>)

\* the variant of formatEntry that renders an array value at ind + 2, like any
\* other value
formatEntryArraysDeeper(key, value, ind) ==
  LET spaces == repeat(ind)
      valueStr == objectToJSLiteral(value, ind + 2)
      valueLines == split(valueStr)
  IN IF Len(valueLines) = 1
     THEN spaces \o keyStr(key) \o <<":", " ">> \o valueStr
     ELSE LET firstValueLine == trimStart(valueLines[1])
              middleLines == sliceMiddle(valueLines)
              lastLine == valueLines[Len(valueLines)]
              closingBrace == repeat(ind) \o trimStart(lastLine)
          IN spaces \o keyStr(key) \o <<":", " ">> \o firstValueLine \o <<NL>>
               \o join(middleLines, <<NL>>) \o <<NL>> \o closingBrace

\* one entry of a mapping rendered at ind
formatEntry(key, value, ind) ==
  LET spaces == repeat(ind)
      valueStr == IF isArray(value)
                  THEN objectToJSLiteral(value, ind)
                  ELSE objectToJSLiteral(value, ind + 2)
      valueLines == split(valueStr)
  IN IF Len(valueLines) = 1
     THEN spaces \o keyStr(key) \o <<":", " ">> \o valueStr
     ELSE LET firstValueLine == trimStart(valueLines[1])
              middleLines == sliceMiddle(valueLines)
              lastLine == valueLines[Len(valueLines)]
              closingBrace == repeat(ind) \o trimStart(lastLine)
          IN spaces \o keyStr(key) \o <<":", " ">> \o firstValueLine \o <<NL>>
               \o join(middleLines, <<NL>>) \o <<NL>> \o closingBrace

objectToJSLiteral(o, ind) ==
  IF o.t = "null" THEN <<"n", "u", "l", "l">>
  ELSE IF o.t = "undefined" THEN <<"u", "n", "d", "e", "f", "i", "n", "e", "d">>
  ELSE IF o.t = "string" THEN stringLiteral(o.v)
  ELSE IF o.t = "number" THEN stringifyNumber(o.v)
  ELSE IF o.t = "boolean" THEN stringifyBoolean(o.v)
  ELSE IF isArray(o)
  THEN IF Len(o.v) = 0 THEN <<"[", "]">>
       ELSE LET items == [i \in 1..Len(o.v) |-> formatItem(o.v[i], ind + 2)]
            IN <<"[", NL>> \o join(items, <<",", NL>>) \o <<NL>>
                 \o repeat(ind) \o <<"]">>
  ELSE IF Len(o.v) = 0 THEN <<"{", "}">>
       ELSE LET formattedEntries ==
                  [i \in 1..Len(o.v) |-> formatEntry(o.v[i][1], o.v[i][2], ind)]
            IN repeat(ind) \o <<"{", NL>> \o join(formattedEntries, <<",", NL>>)
                 \o <<NL>> \o repeat(ind) \o <<"}">>

(***************************************************************************)
(* The trees objectToJSLiteral is applied to                               *)
(***************************************************************************)
RefId == <<"$", "i", "d">>
PlainId == <<"i", "d">>
KeyK == <<"k">>
KeyDashed == <<"m", "-", "k">>
KeyIos == <<"i", "o", "s">>
KeyBundleIdentifier ==
  <<"b", "u", "n", "d", "l", "e", "I", "d", "e", "n", "t", "i", "f", "i", "e", "r">>
RefIdentifier == <<"$", "i", "d", "e", "n", "t", "i", "f", "i", "e", "r">>

LitStrings == {RefId, PlainId, <<"$">>, <<>>, <<"a", "\"", "$">>, <<"\\", NL>>}
LitLeaves == {Null, Undefined, Num(7), Num(42), Bool(TRUE), Bool(FALSE)}
               \cup {Str(s) : s \in LitStrings}
LitInnerLeaves == {Str(RefId), Str(PlainId), Num(7)}
LitLevel1 ==
  {Arr(q) : q \in SeqsUpTo(LitInnerLeaves, MaxArr)}
    \cup ObjectsOver({KeyK, KeyDashed}, LitInnerLeaves)
LitInner ==
  {Str(RefId), Arr(<<>>), Obj(<<>>), Arr(<<Str(RefId)>>),
   Obj(<< <<KeyK, Str(RefId)>> >>),
   Obj(<< <<KeyK, Str(PlainId)>>, <<KeyDashed, Str(RefId)>> >>)}
LitLevel2 ==
  {Arr(q) : q \in SeqsUpTo(LitInner, MaxArr)}
    \cup ObjectsOver({KeyK, KeyDashed}, LitInner)
IosExample == Obj(<< <<KeyIos, Obj(<< <<KeyBundleIdentifier, Str(RefIdentifier)>> >>)>> >>)
LitDeep ==
  {IosExample,
   Arr(<<Arr(<<Obj(<< <<KeyK, Str(RefId)>> >>)>>)>>),
   Obj(<< <<KeyK, Arr(<<Obj(<< <<KeyK, Arr(<<Str(RefId), Str(PlainId)>>)>> >>)>>)>> >>),
   Obj(<< <<KeyK, Obj(<< <<KeyK, Obj(<< <<KeyDashed, Str(RefId)>> >>)>> >>)>> >>)}
NestedExample ==
  Arr(<<Obj(<< <<KeyK, Arr(<<Num(7), Arr(<<Str(RefId)>>)>>)>>,
               <<KeyDashed, Obj(<< <<KeyK, Obj(<< <<KeyK, Num(7)>> >>)>> >>)>> >>),
        Arr(<<Obj(<< <<KeyK, Arr(<<Str(PlainId)>>)>> >>)>>)>>)
LitNested ==
  {NestedExample,
   Obj(<< <<KeyK, NestedExample>>, <<KeyDashed, Num(7)>> >>),
   Obj(<< <<KeyIos, Obj(<< <<KeyK, Arr(<<Arr(<<Num(7)>>), Obj(<<>>)>>)>>,
                           <<KeyDashed, Arr(<<>>)>> >>)>>,
          <<KeyK, Arr(<<Obj(<< <<KeyK, Obj(<< <<KeyK, Null>> >>)>> >>)>>)>> >>)}
LitTrees == LitLeaves \cup LitLevel1 \cup LitLevel2 \cup LitDeep \cup LitNested

Indents == {2 * i : i \in 0..MaxIndentSteps}

LitInit ==
  /\ obj \in LitTrees
  /\ indent \in Indents
  /\ text = <<>>
  /\ lpc = "call"

\* one call objectToJSLiteral(obj, indent)
Serialize ==
  /\ lpc = "call"
  /\ text' = objectToJSLiteral(obj, indent)
  /\ lpc' = "returned"
  /\ UNCHANGED <<obj, indent>>

(***************************************************************************)
(* parseArgs                                                               *)
(***************************************************************************)
Running == -1
NoValue == "<null>"

GroupFlags == {"--group", "-g"}
HelpFlags == {"--help", "-h"}
\* the tokens of the model that start with '-'
DashTokens == GroupFlags \cup HelpFlags \cup {"--verbose"}
Tokens == DashTokens \cup {"proj", "demo", "nogroup", "constructor", ""}

\* arg.startsWith('-')
startsWithDash(tok) == tok \in DashTokens

ParseResult(code, why, tp, gn) ==
  [exit |-> code, why |-> why, targetPath |-> tp, groupName |-> gn]

\* the variant of parseFrom that does not skip the value of --group
RECURSIVE parseFromNoSkip(_, _, _, _)
parseFromNoSkip(a, i, tp, gn) ==
  IF i > Len(a) THEN ParseResult(Running, "", tp, gn)
  ELSE IF a[i] \in GroupFlags
  THEN IF i + 1 <= Len(a)
       THEN parseFromNoSkip(a, i + 1, tp, a[i + 1])
       ELSE ParseResult(1, "groupNeedsValue", tp, gn)
  ELSE IF a[i] \in HelpFlags THEN ParseResult(0, "help", tp, gn)
  ELSE IF ~startsWithDash(a[i])
  THEN IF tp = NoValue
       THEN parseFromNoSkip(a, i + 1, a[i], gn)
       ELSE ParseResult(1, "unexpectedArgument", tp, gn)
  ELSE ParseResult(1, "unknownOption", tp, gn)

\* the for loop of parseArgs from index i on (1-based), with its two locals
RECURSIVE parseFrom(_, _, _, _)
parseFrom(a, i, tp, gn) ==
  IF i > Len(a) THEN ParseResult(Running, "", tp, gn)
  ELSE IF a[i] \in GroupFlags
  THEN IF i + 1 <= Len(a)
       THEN parseFrom(a, i + 2, tp, a[i + 1])
       ELSE ParseResult(1, "groupNeedsValue", tp, gn)
  ELSE IF a[i] \in HelpFlags THEN ParseResult(0, "help", tp, gn)
  ELSE IF ~startsWithDash(a[i])
  THEN IF tp = NoValue
       THEN parseFrom(a, i + 1, a[i], gn)
       ELSE ParseResult(1, "unexpectedArgument", tp, gn)
  ELSE ParseResult(1, "unknownOption", tp, gn)

parseArgs(a) == parseFrom(a, 1, NoValue, NoValue)

(***************************************************************************)
(* main                                                                    *)
(***************************************************************************)
\* the keys of group-configs.json
CatalogKeys == {"demo", "groupe3", "groupe9"}
\* property names every object inherits from Object.prototype
ObjectPrototypeKeys == {"constructor", "toString", "valueOf", "hasOwnProperty"}
\* the directories that exist when the script starts
ExistingPaths == {"proj"}

\* !value for a string or null
falsy(value) == value = NoValue \/ value = ""

\* the variant of existsSync that finds every path
existsSyncAlways(path) == TRUE

\* fs.existsSync(path.resolve(targetPath))
existsSync(path) == path \in ExistingPaths

\* groupConfigs[groupName] is truthy: an own key gives its descriptor, an
\* inherited property name gives the inherited function
groupLookupTruthy(name) == name \in CatalogKeys \cup ObjectPrototypeKeys

MutatingOps ==
  {"rm .eas", "cp .eas", "cp eas.json", "install", "write app.config.ts",
   "unlink app.json"}

Exit(code, why) ==
  /\ pc' = "exited"
  /\ exitCode' = code
  /\ exitWhy' = why
  /\ exitAt' = pc

Goto(step) ==
  /\ pc' = step
  /\ UNCHANGED <<exitCode, exitWhy, exitAt>>

fsVars == <<easSrc, easJsonSrc, targetEas, targetEasJson, installed, appJson,
            appConfigTs>>

MainInit ==
  /\ args \in SeqsUpTo(Tokens, MaxArgs)
  /\ pc = "parseArgs"
  /\ exitCode = Running
  /\ exitWhy = ""
  /\ exitAt = ""
  /\ targetPath = NoValue
  /\ groupName = NoValue
  /\ easSrc \in BOOLEAN
  /\ easJsonSrc \in BOOLEAN
  /\ targetEas \in {"absent", "old"}
  /\ targetEasJson = "absent"
  /\ installed = FALSE
  /\ appJson \in {"present", "absent"}
  /\ appConfigTs = "absent"
  /\ fsLog = <<>>

\* const { targetPath, groupName } = parseArgs()
ParseArgs ==
  /\ pc = "parseArgs"
  /\ LET r == parseArgs(args)
     IN /\ targetPath' = r.targetPath
        /\ groupName' = r.groupName
        /\ IF r.exit # Running THEN Exit(r.exit, r.why) ELSE Goto("validate")
  /\ UNCHANGED <<args, fsVars, fsLog>>

\* the four checks that precede the first copy
Validate ==
  /\ pc = "validate"
  /\ IF falsy(targetPath) THEN Exit(1, "noTargetPath")
     ELSE IF falsy(groupName) THEN Exit(1, "noGroup")
     ELSE IF ~existsSync(targetPath) THEN Exit(1, "pathMissing")
     ELSE IF ~groupLookupTruthy(groupName) THEN Exit(1, "unknownGroup")
     ELSE Goto("copyEas")
  /\ UNCHANGED <<args, targetPath, groupName, fsVars, fsLog>>

\* the variant of Caught that reports success
CaughtAsSuccess == Exit(0, "exception")

\* catch (error) { ...; process.exit(1) }
Caught == Exit(1, "exception")

\* Copy .eas folder
CopyEas ==
  /\ pc = "copyEas"
  /\ IF ~easSrc
     THEN Goto("copyEasJson") /\ UNCHANGED <<targetEas, fsLog>>
     ELSE \/ /\ targetEas # "absent"        \* rmSync throws
             /\ fsLog' = Append(fsLog, "rm .eas")
             /\ UNCHANGED targetEas
             /\ Caught
          \/ /\ fsLog' = IF targetEas # "absent"   \* cpSync throws
                         THEN fsLog \o <<"rm .eas", "cp .eas">>
                         ELSE Append(fsLog, "cp .eas")
             /\ targetEas' = "partial"
             /\ Caught
          \/ /\ fsLog' = IF targetEas # "absent"
                         THEN fsLog \o <<"rm .eas", "cp .eas">>
                         ELSE Append(fsLog, "cp .eas")
             /\ targetEas' = "copied"
             /\ Goto("copyEasJson")
  /\ UNCHANGED <<args, targetPath, groupName, easSrc, easJsonSrc, targetEasJson,
                 installed, appJson, appConfigTs>>

\* Copy eas.json
CopyEasJson ==
  /\ pc = "copyEasJson"
  /\ IF ~easJsonSrc
     THEN Goto("install") /\ UNCHANGED <<targetEasJson, fsLog>>
     ELSE /\ fsLog' = Append(fsLog, "cp eas.json")
          /\ \/ UNCHANGED targetEasJson /\ Caught     \* copyFileSync throws
             \/ targetEasJson' = "copied" /\ Goto("install")
  /\ UNCHANGED <<args, targetPath, groupName, easSrc, easJsonSrc, targetEas,
                 installed, appJson, appConfigTs>>

\* the variant of InstallFailed that goes on with the next step
InstallFailedIgnored ==
  /\ pc' = "checkAppJson"
  /\ exitWhy' = "installFailed"
  /\ UNCHANGED <<exitCode, exitAt>>

\* catch (error) of execSync: process.exit(1)
InstallFailed == Exit(1, "installFailed")

\* Install required dependencies
Install ==
  /\ pc = "install"
  /\ fsLog' = Append(fsLog, "install")
  /\ \/ UNCHANGED installed /\ InstallFailed
     \/ installed' = TRUE /\ Goto("checkAppJson")
  /\ UNCHANGED <<args, targetPath, groupName, easSrc, easJsonSrc, targetEas,
                 targetEasJson, appJson, appConfigTs>>

\* if (!fs.existsSync(appJsonPath)) process.exit(1)
CheckAppJson ==
  /\ pc = "checkAppJson"
  /\ IF appJson # "present" THEN Exit(1, "appJsonMissing") ELSE Goto("readAppJson")
  /\ UNCHANGED <<args, targetPath, groupName, fsVars, fsLog>>

\* read and parse app.json, merge the overrides, build the template
ReadAppJson ==
  /\ pc = "readAppJson"
  /\ fsLog' = Append(fsLog, "read app.json")
  /\ \/ Caught                      \* readFileSync or JSON.parse throws
     \/ Goto("writeConfig")
  /\ UNCHANGED <<args, targetPath, groupName, fsVars>>

\* Write the new app.config.ts
WriteConfig ==
  /\ pc = "writeConfig"
  /\ fsLog' = Append(fsLog, "write app.config.ts")
  /\ \/ UNCHANGED appConfigTs /\ Caught      \* writeFileSync throws
     \/ appConfigTs' = "written" /\ Goto("removeAppJson")
  /\ UNCHANGED <<args, targetPath, groupName, easSrc, easJsonSrc, targetEas,
                 targetEasJson, installed, appJson>>

\* the variant of RemoveAppJson that runs in place of the write
RemoveAppJsonBeforeWrite ==
  /\ pc \in {"writeConfig", "removeAppJson"}
  /\ fsLog' = Append(fsLog, "unlink app.json")
  /\ \/ UNCHANGED appJson /\ Caught
     \/ appJson' = "removed" /\ Goto("done")
  /\ UNCHANGED <<args, targetPath, groupName, easSrc, easJsonSrc, targetEas,
                 targetEasJson, installed, appConfigTs>>

\* Remove app.json
RemoveAppJson ==
  /\ pc = "removeAppJson"
  /\ fsLog' = Append(fsLog, "unlink app.json")
  /\ \/ UNCHANGED appJson /\ Caught          \* unlinkSync throws
     \/ appJson' = "removed" /\ Goto("done")
  /\ UNCHANGED <<args, targetPath, groupName, easSrc, easJsonSrc, targetEas,
                 targetEasJson, installed, appConfigTs>>

\* main returns and the process ends with code 0
Finish ==
  /\ pc = "done"
  /\ Exit(0, "completed")
  /\ UNCHANGED <<args, targetPath, groupName, fsVars, fsLog>>

(***************************************************************************)
(* Specifications                                                          *)
(***************************************************************************)
MainIdle ==
  /\ args = <<>> /\ pc = "exited" /\ exitCode = Running /\ exitWhy = ""
  /\ exitAt = "" /\ targetPath = NoValue /\ groupName = NoValue
  /\ easSrc = FALSE /\ easJsonSrc = FALSE /\ targetEas = "absent"
  /\ targetEasJson = "absent" /\ installed = FALSE /\ appJson = "absent"
  /\ appConfigTs = "absent" /\ fsLog = <<>>
MergeIdle == left = Undefined /\ right = Undefined /\ merged = Undefined /\ mpc = "idle"
LitIdle == obj = Undefined /\ indent = 0 /\ text = <<>> /\ lpc = "idle"

Init == MainInit /\ MergeIdle /\ LitIdle
Next ==
  \/ ParseArgs /\ UNCHANGED <<mergeVars, litVars>>
  \/ Validate /\ UNCHANGED <<mergeVars, litVars>>
  \/ CopyEas /\ UNCHANGED <<mergeVars, litVars>>
  \/ CopyEasJson /\ UNCHANGED <<mergeVars, litVars>>
  \/ Install /\ UNCHANGED <<mergeVars, litVars>>
  \/ CheckAppJson /\ UNCHANGED <<mergeVars, litVars>>
  \/ ReadAppJson /\ UNCHANGED <<mergeVars, litVars>>
  \/ WriteConfig /\ UNCHANGED <<mergeVars, litVars>>
  \/ RemoveAppJson /\ UNCHANGED <<mergeVars, litVars>>
  \/ Finish /\ UNCHANGED <<mergeVars, litVars>>
Spec == Init /\ [][Next]_vars

InitMerge == MergeInit /\ MainIdle /\ LitIdle
NextMerge == Merge /\ UNCHANGED <<mainVars, litVars>>
SpecMerge == InitMerge /\ [][NextMerge]_vars

InitLiteral == LitInit /\ MainIdle /\ MergeIdle
NextLiteral == Serialize /\ UNCHANGED <<mainVars, mergeVars>>
SpecLiteral == InitLiteral /\ [][NextLiteral]_vars

(***************************************************************************)
(* Properties of main and parseArgs (specification Spec)                   *)
(***************************************************************************)
Logged(op) == \E i \in 1..Len(fsLog) : fsLog[i] = op
NoMutation == \A i \in 1..Len(fsLog) : fsLog[i] \notin MutatingOps
LastOp == IF fsLog = <<>> THEN "" ELSE fsLog[Len(fsLog)]
Before(op1, op2) ==
  \A j \in 1..Len(fsLog) : fsLog[j] = op2 => \E i \in 1..(j - 1) : fsLog[i] = op1
TargetUntouched ==
  /\ fsLog = <<>>
  /\ targetEas \in {"absent", "old"}
  /\ targetEasJson = "absent"
  /\ ~installed
  /\ appJson \in {"present", "absent"}
  /\ appConfigTs = "absent"

\* C1: a run whose --group value is not a key of the group catalog ends with
\* exit code 1 and attempts no mutating file-system operation (stated for the
\* runs that do not end in the usage exit of --help, which ends with code 0).
C1_UnknownGroupExitsUntouched ==
  (/\ pc # "parseArgs"
   /\ exitWhy # "help"
   /\ groupName # NoValue
   /\ groupName \notin CatalogKeys)
  => /\ pc = "exited" => exitCode = 1
     /\ NoMutation

\* C2 as stated: a run that reports a missing target path or a missing
\* app.json exits with code 1 with the target exactly as it was at start.
C2_PreconditionErrorsBeforeMutation ==
  exitWhy \in {"pathMissing", "appJsonMissing"}
  => exitCode = 1 /\ TargetUntouched

\* C2 as amended: a run that got a target path and a group from its arguments
\* and whose target path does not exist exits with code 1 at the validation,
\* the target untouched; a missing app.json is found only after the .eas copy,
\* the eas.json copy and the package install have run: the run then exits with
\* code 1 with those effects in place, and never reads app.json, writes
\* app.config.ts or ends with code 0.
C2_PreconditionErrorsAmended ==
  /\ (/\ pc \notin {"parseArgs", "validate"}
      /\ exitAt # "parseArgs"
      /\ ~falsy(targetPath)
      /\ ~falsy(groupName)
      /\ targetPath \notin ExistingPaths)
     => exitWhy = "pathMissing"
  /\ exitWhy = "pathMissing"
     => pc = "exited" /\ exitCode = 1 /\ exitAt = "validate" /\ TargetUntouched
  /\ exitWhy = "appJsonMissing"
     => /\ pc = "exited" /\ exitCode = 1 /\ exitAt = "checkAppJson"
        /\ LastOp = "install" /\ installed
        /\ easSrc => targetEas = "copied"
        /\ easJsonSrc => targetEasJson = "copied"
  /\ appJson = "absent"
     => /\ pc \notin {"readAppJson", "writeConfig", "removeAppJson", "done"}
        /\ exitWhy # "completed"
        /\ appConfigTs = "absent"
        /\ ~Logged("read app.json")

C2_Witness ==
  /\ exitWhy = "appJsonMissing"
  /\ targetEas = "copied"
  /\ targetEasJson = "copied"
  /\ installed

\* C6: a failure of the package install happens only after the two copy steps
\* have run, ends the run with exit code 1, and no later step runs: app.json
\* is not read, app.config.ts is not written, app.json is not removed, and
\* what the copy steps copied stays in place.
C6_InstallFailureAborts ==
  /\ Logged("install")
     => /\ easSrc => Before("cp .eas", "install")
        /\ easJsonSrc => Before("cp eas.json", "install")
        /\ pc \notin {"parseArgs", "validate", "copyEas", "copyEasJson", "install"}
  /\ exitWhy = "installFailed"
     => /\ pc = "exited" /\ exitCode = 1 /\ exitAt = "install"
        /\ LastOp = "install"
        /\ ~installed
        /\ easSrc => targetEas = "copied"
        /\ easJsonSrc => targetEasJson = "copied"
        /\ ~Logged("read app.json")
        /\ ~Logged("write app.config.ts")
        /\ ~Logged("unlink app.json")
        /\ appConfigTs = "absent"
        /\ appJson # "removed"

C6_Witness ==
  /\ exitWhy = "installFailed"
  /\ pc = "exited"
  /\ targetEas = "copied"
  /\ targetEasJson = "copied"

\* C7 as stated: app.json is never removed while app.config.ts is unwritten,
\* and a run ends with exit code 0 only with app.config.ts written and
\* app.json removed.
C7_ExitZeroOnlyAfterWriteAndRemove ==
  /\ appJson = "removed" => appConfigTs = "written"
  /\ exitCode = 0 => appConfigTs = "written" /\ appJson = "removed"

\* C7 as amended: app.json is removed only after app.config.ts has been
\* written in the same run, and a run that is not a usage request (--help, -h)
\* ends with exit code 0 only with app.config.ts written and app.json removed.
C7_RemoveOnlyAfterWrite ==
  /\ appJson = "removed" => appConfigTs = "written"
  /\ Before("write app.config.ts", "unlink app.json")
  /\ (exitCode = 0 /\ exitWhy # "help")
     => /\ exitWhy = "completed"
        /\ appConfigTs = "written"
        /\ appJson = "removed"

C7_Witness ==
  /\ exitWhy = "completed"
  /\ exitCode = 0
  /\ appConfigTs = "written"
  /\ appJson = "removed"

StepOrder ==
  <<"parseArgs", "validate", "copyEas", "copyEasJson", "install", "checkAppJson",
    "readAppJson", "writeConfig", "removeAppJson", "done">>
StepNo(step) == CHOOSE i \in 1..Len(StepOrder) : StepOrder[i] = step
StepOf(op) ==
  CASE op \in {"rm .eas", "cp .eas"} -> "copyEas"
    [] op = "cp eas.json" -> "copyEasJson"
    [] op = "install" -> "install"
    [] op = "read app.json" -> "readAppJson"
    [] op = "write app.config.ts" -> "writeConfig"
    [] op = "unlink app.json" -> "removeAppJson"

\* C8: an exception raised by a step of main ends the run with exit code 1;
\* the failed step is not run again, no later step runs, and what the earlier
\* steps did stays as it is.
C8_ExceptionEndsRun ==
  exitWhy = "exception"
  => /\ pc = "exited" /\ exitCode = 1
     /\ exitAt \in {"copyEas", "copyEasJson", "readAppJson", "writeConfig",
                    "removeAppJson"}
     /\ fsLog # <<>> /\ StepOf(LastOp) = exitAt
     /\ \A i, j \in 1..Len(fsLog) : fsLog[i] = fsLog[j] => i = j
     /\ \A i \in 1..Len(fsLog) : StepNo(StepOf(fsLog[i])) <= StepNo(exitAt)
     /\ (StepNo(exitAt) > StepNo("copyEas") /\ easSrc) => targetEas = "copied"
     /\ (StepNo(exitAt) > StepNo("copyEasJson") /\ easJsonSrc)
          => targetEasJson = "copied"
     /\ StepNo(exitAt) > StepNo("install") => installed
     /\ StepNo(exitAt) > StepNo("writeConfig") => appConfigTs = "written"
     /\ StepNo(exitAt) <= StepNo("writeConfig") => appConfigTs = "absent"
     /\ appJson = "present" \/ StepNo(exitAt) <= StepNo("install")

C8_Witness ==
  /\ exitWhy = "exception"
  /\ exitAt = "removeAppJson"
  /\ targetEas = "copied"
  /\ installed
  /\ appConfigTs = "written"
  /\ appJson = "present"

\* the i-th argument is taken as the value of a preceding --group or -g
RECURSIVE IsGroupValue(_, _)
IsGroupValue(a, i) == i > 1 /\ a[i - 1] \in GroupFlags /\ ~IsGroupValue(a, i - 1)
IsPositional(a, i) == ~IsGroupValue(a, i) /\ a[i] \notin DashTokens
IsUnknownFlag(tok) == tok \in DashTokens \ (GroupFlags \cup HelpFlags)
\* the i-th argument ends the parse
Decides(a, i) ==
  /\ ~IsGroupValue(a, i)
  /\ \/ a[i] \in HelpFlags
     \/ IsUnknownFlag(a[i])
     \/ a[i] \in GroupFlags /\ i = Len(a)
     \/ IsPositional(a, i) /\ \E j \in 1..(i - 1) : IsPositional(a, j)
FirstDeciding(a) ==
  IF \E i \in 1..Len(a) : Decides(a, i)
  THEN CHOOSE i \in 1..Len(a) :
         Decides(a, i) /\ \A j \in 1..(i - 1) : ~Decides(a, j)
  ELSE 0

\* C9 as stated: every argument list that contains --help or -h ends in the
\* usage exit with code 0, every one that contains an unknown flag or a second
\* positional argument ends with code 1, and no file-system operation is done.
C9_HelpAndUnknownFlagsAnywhere ==
  pc # "parseArgs"
  => /\ (\E i \in 1..Len(args) : args[i] \in HelpFlags)
        => pc = "exited" /\ exitCode = 0 /\ exitWhy = "help" /\ fsLog = <<>>
     /\ (\/ \E i \in 1..Len(args) : IsUnknownFlag(args[i])
         \/ \E i, j \in 1..Len(args) : i < j /\ IsPositional(args, i)
                                       /\ IsPositional(args, j))
        => pc = "exited" /\ exitCode = 1 /\ fsLog = <<>>

\* C9 as amended: parseArgs reads the arguments from left to right and takes
\* the argument after --group or -g as the group value whatever it is; the
\* first other argument that is --help or -h, an unknown flag, a second
\* positional argument, or a final --group or -g without a value ends the run
\* there: with the usage text and code 0 for --help or -h, with code 1
\* otherwise, and with no file-system operation done.  Without such an
\* argument parseArgs returns.
C9_FirstDecidingArgument ==
  pc # "parseArgs"
  => LET d == FirstDeciding(args)
     IN IF d = 0
        THEN exitAt # "parseArgs" /\ pc \in {"validate", "exited"} \cup
                                          {StepOrder[i] : i \in 3..Len(StepOrder)}
        ELSE /\ pc = "exited" /\ exitAt = "parseArgs"
             /\ fsLog = <<>>
             /\ TargetUntouched
             /\ exitCode = (IF args[d] \in HelpFlags THEN 0 ELSE 1)
             /\ exitWhy = "help" <=> args[d] \in HelpFlags

C9_Witness ==
  /\ pc = "exited"
  /\ exitWhy = "unknownOption"
  /\ exitCode = 1
  /\ \E i \in 1..Len(args) : args[i] \in HelpFlags

(***************************************************************************)
(* Properties of deepMerge (specification SpecMerge)                       *)
(***************************************************************************)
KeysOf(entries) == {entries[i][1] : i \in 1..Len(entries)}
IsMapping(x) == x.t = "object"

\* every array met in base and override at the same position of the two trees
\* is, in the merged tree m, the base array followed by the override array
RECURSIVE ArraysConcatenated(_, _, _)
ArraysConcatenated(b, o, m) ==
  IF isArray(b) /\ isArray(o) THEN m = Arr(b.v \o o.v)
  ELSE IF IsMapping(b) /\ IsMapping(o)
  THEN /\ IsMapping(m)
       /\ \A k \in KeysOf(b.v) \cap KeysOf(o.v) :
            /\ hasKey(m.v, k)
            /\ ArraysConcatenated(getKey(b.v, k), getKey(o.v, k), getKey(m.v, k))
  ELSE TRUE

\* C3: wherever deepMerge meets an array in base and an array in override at
\* the same position (top level, or the same key path of the mappings being
\* merged), the merged value there is base's elements followed by override's.
C3_ArraysConcatenateAtEveryPosition ==
  mpc = "returned" => ArraysConcatenated(left, right, merged)

C5_NullAbsorbing ==
  mpc = "returned"
  => /\ isNullish(right) => merged = left
     /\ (~isNullish(right) /\ isNullish(left)) => merged = right

C5_Witness ==
  /\ mpc = "returned"
  /\ left = Null
  /\ right = Undefined
  /\ merged = Null

(***************************************************************************)
(* Properties of objectToJSLiteral (specification SpecLiteral)             *)
(***************************************************************************)
\* what a string leaf is to be rendered as
ExpectedString(s) ==
  IF s # <<>> /\ s[1] = "$" THEN SubSeq(s, 2, Len(s))
  ELSE <<"\"">> \o escapeAll(s) \o <<"\"">>

\* the lines, without indentation and separating comma, that the string
\* leaves of a tree are to appear as, at any depth
RECURSIVE StringLeafLines(_)
StringLeafLines(tree) ==
  IF tree.t = "array"
  THEN UNION {IF tree.v[i].t = "string" THEN {ExpectedString(tree.v[i].v)}
              ELSE StringLeafLines(tree.v[i]) : i \in 1..Len(tree.v)}
  ELSE IF tree.t = "object"
  THEN UNION {IF tree.v[i][2].t = "string"
              THEN {keyStr(tree.v[i][1]) \o <<":", " ">>
                      \o ExpectedString(tree.v[i][2].v)}
              ELSE StringLeafLines(tree.v[i][2]) : i \in 1..Len(tree.v)}
  ELSE {}

StripComma(line) ==
  IF line # <<>> /\ line[Len(line)] = "," THEN SubSeq(line, 1, Len(line) - 1) ELSE line
BareLines(t) == {StripComma(trimStart(split(t)[i])) : i \in 1..Len(split(t))}

IosLines ==
  << <<" ", " ", "i", "o", "s", ":", " ", "{">>,
     <<" ", " ", " ", " ">> \o KeyBundleIdentifier \o <<":", " ">>
        \o <<"i", "d", "e", "n", "t", "i", "f", "i", "e", "r">>,
     <<" ", " ", "}">> >>

\* C10: a string leaf that starts with '$' is rendered as the rest of the
\* string without quotes, any other string as a quoted, escaped literal, at
\* top level, as a mapping value and as an array element at any depth; and
\* ios.bundleIdentifier = "$identifier" in a mapping rendered at indent 2
\* gives the lines `  ios: {`, `    bundleIdentifier: identifier`, `  }`.
C10_ReferenceMarkersUnquoted ==
  lpc = "returned"
  => /\ obj.t = "string" => text = ExpectedString(obj.v)
     /\ StringLeafLines(obj) \subseteq BareLines(text)
     /\ (obj = IosExample /\ indent = 2)
        => /\ Len(split(text)) = 5
           /\ SubSeq(split(text), 2, 4) = IosLines

C10_Witness ==
  /\ lpc = "returned"
  /\ obj = IosExample
  /\ indent = 2
  /\ SubSeq(split(text), 2, 4) = IosLines

(***************************************************************************)
(* Layout of the rendered text (specification SpecLiteral)                 *)
(***************************************************************************)
Column(line) == leadingWhitespace(line)
Bare(line) == StripComma(trimStart(line))
\* the line ends with an opening token
Opens(line) == Bare(line) # <<>> /\ Bare(line)[Len(Bare(line))] \in {"{", "["}
\* the line is a closing token on its own
Closes(line) == Bare(line) \in {<<"}">>, <<"]">>}
\* the line is `key: {` or `key: [`
IsEntryOpener(line) ==
  /\ Opens(line)
  /\ Len(Bare(line)) > 3
  /\ SubSeq(Bare(line), Len(Bare(line)) - 2, Len(Bare(line)) - 1) = <<":", " ">>
Closer(line) == IF Bare(line)[Len(Bare(line))] = "{" THEN <<"}">> ELSE <<"]">>
\* how deep line k lies inside the block that line i opens
DepthIn(lines, i, k) ==
  Cardinality({m \in i..(k - 1) : Opens(lines[m])})
    - Cardinality({m \in (i + 1)..k : Closes(lines[m])})
HasMatch(lines, i) == \E j \in (i + 1)..Len(lines) : DepthIn(lines, i, j) = 0
MatchOf(lines, i) ==
  CHOOSE j \in (i + 1)..Len(lines) :
    DepthIn(lines, i, j) = 0 /\ \A m \in (i + 1)..(j - 1) : DepthIn(lines, i, m) > 0

\* every `key: {` or `key: [` line of the text, at any depth, has its closing
\* token on a line of its own in the key's column, and what it directly holds
\* starts two columns further
EntryBlocksAligned(lines) ==
  \A i \in 1..Len(lines) :
    IsEntryOpener(lines[i])
    => /\ HasMatch(lines, i)
       /\ LET j == MatchOf(lines, i)
          IN /\ j > i + 1
             /\ Bare(lines[j]) = Closer(lines[i])
             /\ Column(lines[j]) = Column(lines[i])
             /\ \A k \in (i + 1)..(j - 1) :
                  DepthIn(lines, i, k) = 1 => Column(lines[k]) = Column(lines[i]) + 2

IsContainer(x) == x.t \in {"array", "object"} /\ x.v # <<>>
\* the value's own rendering, at the indent its kind is rendered at
OwnLines(value, ind) ==
  split(objectToJSLiteral(value, IF isArray(value) THEN ind ELSE ind + 2))
RECURSIVE LinesBefore(_, _, _)
LinesBefore(entries, i, ind) ==
  IF i = 1 THEN 1
  ELSE LinesBefore(entries, i - 1, ind) + Len(OwnLines(entries[i - 1][2], ind))
WithComma(line, more) == IF more THEN Append(line, ",") ELSE line

\* the entries of a non-empty mapping rendered at ind, as they lie in lines
MappingLaidOut(entries, ind, lines) ==
  /\ Len(lines) = LinesBefore(entries, Len(entries) + 1, ind) + 1
  /\ \A i \in 1..Len(entries) :
       LET own == OwnLines(entries[i][2], ind)
           at == LinesBefore(entries, i, ind) + 1
           n == Len(own)
           more == i < Len(entries)
           head == repeat(ind) \o keyStr(entries[i][1]) \o <<":", " ">>
       IN /\ Column(lines[at]) = ind
          /\ SubSeq(lines[at], 1, Len(head)) = head
          /\ IsContainer(entries[i][2])
             => /\ n >= 3
                /\ lines[at] = head \o <<own[1][Len(own[1])]>>
                /\ own[1][Len(own[1])] \in {"{", "["}
                /\ \A m \in 2..(n - 1) : lines[at + m - 1] = own[m]
                /\ \A m \in 2..(n - 1) : Column(own[m]) >= ind + 2
                /\ lines[at + n - 1]
                     = WithComma(repeat(ind) \o <<own[n][Len(own[n])]>>, more)
                /\ own[n][Len(own[n])] \in {"}", "]"}
          /\ ~IsContainer(entries[i][2]) => n = 1

\* C11: in a mapping rendered at indent n every entry line starts at column
\* n; an entry whose value is a non-empty array or mapping has the opening
\* token on the key's line, the closing token on its own line at column n,
\* what it directly holds at column n + 2, and as interior lines those of the
\* value's own rendering; so at every depth, also inside array elements.
C11_EntryLayout ==
  lpc = "returned"
  => /\ EntryBlocksAligned(split(text))
     /\ (obj.t = "object" /\ obj.v # <<>>)
        => MappingLaidOut(obj.v, indent, split(text))

C11_Witness ==
  /\ lpc = "returned"
  /\ indent = 2
  /\ obj = Obj(<< <<KeyK, NestedExample>>, <<KeyDashed, Num(7)>> >>)
  /\ Len(split(text)) = 25
  /\ split(text)[2] = <<" ", " ", "k", ":", " ", "[">>
  /\ split(text)[23] = <<" ", " ", "]", ",">>
  /\ \E i \in 3..22 : IsEntryOpener(split(text)[i]) /\ Column(split(text)[i]) = 6

====
